---- MODULE Spec2Model ----
(***************************************************************************)
(* Speech-to-TTS: the voice-activity segmenter (app/capture.py), the pause *)
(* coordinator (app/main.py), the two stage workers (app/stt_worker.py,    *)
(* app/tts_worker.py) and the playback scheduler (app/playback.py) as one  *)
(* state machine.  Every thread of the program is a process with a program *)
(* counter; a step of a thread runs from one point where another thread    *)
(* can observe or block it to the next.                                    *)
(*                                                                         *)
(* Probabilities are percentages (0.5 is 50).  A frame is identified by    *)
(* its 0-based index in the current capture session.  Time is a discrete   *)
(* clock that starts at 1 (time.time() is never 0.0).                      *)
(***************************************************************************)
EXTENDS Integers, Sequences, FiniteSets, TLC

VARIABLES
    \* ---- AudioCaptureVAD configuration (fixed at construction)
    prebuffer_frames,      \* deque maxlen of the preroll ring
    min_speech_frames,
    min_silence_frames,
    queue_max_items,       \* PlaybackController queue cap
    \* ---- AudioCaptureVAD state
    state,                 \* VADState
    speech_frames,
    silence_frames,
    prebuffer,             \* the preroll ring, oldest first
    utterance_buffer,
    tail_buffer,
    last_speech_end_time,  \* 0 = no speech has ended yet
    capture_running,       \* _running / the input stream is open
    cb_pc,                 \* where the audio callback thread is
    cb_segment,            \* the AudioSegment built by _emit_segment
    \* ---- history of the capture (not program state)
    trace,                 \* probabilities of the frames of this session
    session,               \* number of capture.start() calls so far
    events,                \* notifications fired, in order
    segments,              \* segments handed to on_segment, in order
    frames_total,          \* frames delivered over all sessions
    speech_ended_at,       \* clock when state last went IN_SPEECH -> IDLE
    escaped,               \* exceptions that left _audio_callback
    \* ---- STTTTSApp pause state
    paused,                \* _paused
    pause_lock,            \* holder of _pause_lock
    t_pc,                  \* where the hotkey thread is in _toggle_pause
    toggles,               \* number of _toggle_pause calls so far
    \* ---- STTWorker
    stt_queue,
    stt_pc,                \* where each _worker_loop thread is
    stt_item,              \* the item each _worker_loop thread holds
    stt_running,           \* _running
    stt_thread,            \* _thread: 0 = None, else the loop it refers to
    ctl_pc,                \* where the caller of start() / stop() is
    \* ---- TTSWorker
    tts_queue,
    tts_pc,
    tts_item,
    \* ---- PlaybackController
    pb_queue,              \* _queue
    is_playing,            \* _is_playing
    current_clip,          \* _current_clip
    was_playing,
    s_pc,                  \* where the scheduler thread is in _worker_loop
    s_now,                 \* local: now
    s_last_speech_end,     \* local: last_speech_end
    s_user_speaking,       \* local: user_speaking
    played,                \* history: clips popped for playback, in order
    \* ---- the transcript sink (OBS text file) and its timers
    obs_text,              \* sink content: 0 = empty, k = transcript of clip k
    obs_clear,             \* the clear Timer threads created so far: their pc
    obs_clear_timer,       \* _obs_clear_timer: index into obs_clear, 0 = None
    obs_update_timer,      \* _obs_update_timer: NoTimer or the armed write
    \* ---- clear_queue of a stage, called by _toggle_pause
    t_cleared,             \* local: cleared
    t_snapshot,            \* history: ids in the queue when it was called
    t_removed,             \* history: ids it has removed, in order
    \* ---- stopping the TTS worker and the playback controller
    tts_running,           \* TTSWorker._running
    pb_running,            \* PlaybackController._running
    pstop_pc,              \* where the caller of PlaybackController.stop() is
    \* ---- history of the stages (not program state)
    stt_out,               \* ids handed to tts.enqueue, in order
    tts_out,               \* ids handed to playback.enqueue, in order
    failed,                \* items whose processing raised, with the stage
    \* ---- environment
    clock                  \* time.time()

cfg_vars == <<prebuffer_frames, min_speech_frames, min_silence_frames,
              queue_max_items>>
vad_vars == <<state, speech_frames, silence_frames, prebuffer,
              utterance_buffer, tail_buffer>>
cap_vars == <<last_speech_end_time, capture_running, cb_pc, cb_segment>>
hist_vars == <<trace, session, events, segments, frames_total,
               speech_ended_at, escaped>>
pause_vars == <<paused, pause_lock, t_pc, toggles>>
stt_vars == <<stt_queue, stt_pc, stt_item>>
ctl_vars == <<stt_running, stt_thread, ctl_pc>>
tts_vars == <<tts_queue, tts_pc, tts_item>>
pb_vars == <<pb_queue, is_playing, current_clip, was_playing, played>>
sched_vars == <<s_pc, s_now, s_last_speech_end, s_user_speaking>>
drain_vars == <<t_cleared, t_snapshot, t_removed>>
run_vars == <<tts_running, pb_running, pstop_pc>>
obs_vars == <<obs_text, obs_clear, obs_clear_timer, obs_update_timer>>
flow_vars == <<stt_out, tts_out, failed>>

vars == <<cfg_vars, vad_vars, cap_vars, hist_vars, pause_vars, stt_vars,
          ctl_vars, tts_vars, pb_vars, sched_vars, obs_vars, drain_vars,
          run_vars, flow_vars, clock>>

----------------------------------------------------------------------------
(* Bounds of the model. *)

MaxFrames == 5          \* frames delivered in one run of the segment model
MaxPrebuffer == 2       \* largest preroll ring capacity drawn
MaxMinSpeech == 2       \* largest min_speech_frames drawn
MaxMinSilence == 2      \* largest min_silence_frames drawn
MaxToggles == 2         \* _toggle_pause calls in one run
MaxClock == 3           \* last clock value
MaxPipeFrames == 4      \* frames delivered in one run of the pipeline model
MaxOrderFrames == 4     \* frames delivered in one run of the order model
MaxLoops == 2           \* _worker_loop threads created in one run
MaxItems == 2           \* segments handed to the worker in the worker model
MaxClips == 3           \* transcripts handed to TTS in the silent model
MaxQueueClips == 2      \* transcripts handed to TTS in the queue model
MaxQueueCap == 2        \* largest queue_max_items drawn
MaxQueueFrames == 2     \* frames delivered in one run of the queue model
MaxErrFrames == 4       \* frames delivered in the estimator-error model

(* Program constants. *)

start_threshold == 50
end_threshold == 35
vad_end_timeout == 2    \* vad_end_timeout_seconds = 1.0, in ticks of 0.5 s

IDLE == "idle"
IN_SPEECH == "in_speech"

\* One probability below end_threshold, one between the two thresholds, one
\* at or above start_threshold.
Probs == {10, 40, 90}

NoItem == [id |-> 0]

\* The ids of the items of a queue, in order
Ids(q) == [i \in DOMAIN q |-> q[i].id]

NoTimer == [pc |-> "none", text |-> 0]

Loops == 1..MaxLoops

----------------------------------------------------------------------------
(* AudioCaptureVAD *)

\* (variant: a ring that never evicts its oldest frame)
RingAppend_NoEvict(buf, cap, f) ==
    IF cap = 0 THEN <<>> ELSE Append(buf, f)

\* collections.deque(maxlen = cap).append(f)
RingAppend(buf, cap, f) ==
    IF cap = 0 THEN <<>>
    ELSE IF Len(buf) < cap THEN Append(buf, f)
    ELSE Append(Tail(buf), f)

\* (variant: start_threshold is the threshold in both states)
IsSpeech_OneThreshold(st, p) == p >= start_threshold

\* is_speech of _process_frame: the threshold depends on the state
IsSpeech(st, p) ==
    IF st = IDLE THEN p >= start_threshold ELSE p >= end_threshold

\* AudioCaptureVAD.is_speaking()
IsSpeaking == state = IN_SPEECH

\* (variant: speech confirmed one frame late)
SpeechConfirmed_Late(count) == count > min_speech_frames

\* "if self.speech_frames >= self.min_speech_frames", on the new count
SpeechConfirmed(count) == count >= min_speech_frames

\* (variant: one more silent frame is needed)
SilenceConfirmed_Late(count) == count > min_silence_frames

\* (variant: end of speech confirmed one frame early)
SilenceConfirmed_Early(count) == count + 1 >= min_silence_frames

\* "if self.silence_frames >= self.min_silence_frames", on the new count
SilenceConfirmed(count) == count >= min_silence_frames

Event(kind, f) == [kind |-> kind, frame |-> f, session |-> session]

\* (variant: the frame received while IN_SPEECH is not kept)
UtteranceAppend_Dropped(buf, f) == buf

\* self.utterance_buffer.append(frame), before the silence check
UtteranceAppend(buf, f) == Append(buf, f)

\* _process_frame in state IDLE, up to the call of on_speech_start
FrameIdle(p) ==
    LET f == Len(trace)
        ring == RingAppend(prebuffer, prebuffer_frames, f)
        confirmed == IsSpeech(state, p)
                     /\ SpeechConfirmed(speech_frames + 1)
    IN  /\ capture_running
        /\ cb_pc = "wait"
        /\ state = IDLE
        /\ trace' = Append(trace, p)
        /\ frames_total' = frames_total + 1
        /\ prebuffer' = ring
        /\ speech_frames' = IF IsSpeech(state, p) THEN speech_frames + 1 ELSE 0
        /\ state' = IF confirmed THEN IN_SPEECH ELSE state
        /\ silence_frames' = IF confirmed THEN 0 ELSE silence_frames
        /\ utterance_buffer' = IF confirmed THEN ring ELSE utterance_buffer
        /\ events' = IF confirmed THEN Append(events, Event("speech_start", f))
                     ELSE events
        /\ cb_pc' = IF confirmed THEN "on_speech_start" ELSE "wait"
        /\ UNCHANGED <<cfg_vars, tail_buffer, last_speech_end_time,
                       capture_running, cb_segment, session, segments,
                       speech_ended_at, escaped, pause_vars, stt_vars,
                       ctl_vars, tts_vars, pb_vars, sched_vars, obs_vars,
                       drain_vars, run_vars, flow_vars, clock>>

\* _process_frame in state IN_SPEECH, up to the call of on_segment made by
\* _emit_segment (which returns at once on an empty utterance buffer)
FrameInSpeech(p) ==
    LET f == Len(trace)
        utt == UtteranceAppend(utterance_buffer, f)
        ended == ~IsSpeech(state, p)
                 /\ SilenceConfirmed(silence_frames + 1)
        seg == [id |-> Len(segments) + 1, audio |-> utt]
    IN  /\ capture_running
        /\ cb_pc = "wait"
        /\ state = IN_SPEECH
        /\ trace' = Append(trace, p)
        /\ frames_total' = frames_total + 1
        /\ utterance_buffer' = utt
        /\ silence_frames' = IF IsSpeech(state, p) THEN 0
                             ELSE silence_frames + 1
        /\ segments' = IF ended /\ utt # <<>>
                       THEN Append(segments, [session |-> session,
                                              frames |-> utt])
                       ELSE segments
        /\ cb_segment' = IF ended /\ utt # <<>> THEN seg ELSE cb_segment
        /\ cb_pc' = IF ~ended THEN "wait"
                    ELSE IF utt # <<>> THEN "on_segment" ELSE "reset"
        /\ UNCHANGED <<cfg_vars, state, speech_frames, prebuffer, tail_buffer,
                       last_speech_end_time, capture_running, session, events,
                       speech_ended_at, escaped, pause_vars, stt_vars,
                       ctl_vars, tts_vars, pb_vars, sched_vars, obs_vars,
                       drain_vars, run_vars, flow_vars, clock>>

\* _process_frame when self.vad_model raises: nothing catches the exception
\* in _vad_probability, _process_frame or _audio_callback, so it leaves the
\* callback before any state is touched; the chunk was already cut from
\* _audio_buffer.  The frame is recorded in trace as -1.  The stream either
\* keeps calling the callback or is aborted by the audio library.
FrameError ==
    \E aborts \in BOOLEAN :
        /\ capture_running
        /\ cb_pc = "wait"
        /\ trace' = Append(trace, -1)
        /\ frames_total' = frames_total + 1
        /\ escaped' = escaped + 1
        /\ cb_pc' = IF aborts THEN "aborted" ELSE "wait"
        /\ UNCHANGED <<cfg_vars, vad_vars, last_speech_end_time,
                       capture_running, cb_segment, session, events, segments,
                       speech_ended_at, pause_vars, stt_vars, ctl_vars,
                       tts_vars, pb_vars, sched_vars, obs_vars, drain_vars,
                       run_vars, flow_vars, clock>>

\* STTTTSApp._on_speech_start: the is_paused check (takes _pause_lock)
OnSpeechStart ==
    /\ cb_pc = "on_speech_start"
    /\ pause_lock = "free"
    /\ cb_pc' = IF paused THEN "wait" ELSE "start_clear"
    /\ UNCHANGED <<cfg_vars, vad_vars, last_speech_end_time, capture_running,
                   cb_segment, hist_vars, pause_vars, stt_vars, ctl_vars,
                   tts_vars, pb_vars, sched_vars, obs_vars, drain_vars,
                   run_vars, flow_vars, clock>>

\* STTTTSApp._on_speech_start: playback.clear_queue()
OnSpeechStartClear ==
    /\ cb_pc = "start_clear"
    /\ pb_queue' = <<>>
    /\ cb_pc' = "wait"
    /\ UNCHANGED <<cfg_vars, vad_vars, last_speech_end_time, capture_running,
                   cb_segment, hist_vars, pause_vars, stt_vars, ctl_vars,
                   tts_vars, is_playing, current_clip, was_playing, played,
                   sched_vars, obs_vars, drain_vars, run_vars, flow_vars,
                   clock>>

\* STTTTSApp._on_segment: the is_paused check
OnSegment ==
    /\ cb_pc = "on_segment"
    /\ pause_lock = "free"
    /\ cb_pc' = IF paused THEN "reset" ELSE "segment_enqueue"
    /\ UNCHANGED <<cfg_vars, vad_vars, last_speech_end_time, capture_running,
                   cb_segment, hist_vars, pause_vars, stt_vars, ctl_vars,
                   tts_vars, pb_vars, sched_vars, obs_vars, drain_vars,
                   run_vars, flow_vars, clock>>

\* STTTTSApp._on_segment: stt.enqueue(segment)
OnSegmentEnqueue ==
    /\ cb_pc = "segment_enqueue"
    /\ stt_queue' = Append(stt_queue, cb_segment)
    /\ cb_pc' = "reset"
    /\ UNCHANGED <<cfg_vars, vad_vars, last_speech_end_time, capture_running,
                   cb_segment, hist_vars, pause_vars, stt_pc, stt_item,
                   ctl_vars, tts_vars, pb_vars, sched_vars, obs_vars,
                   drain_vars, run_vars, flow_vars, clock>>

\* (variant: the reset leaves the preroll ring as it is)
ResetAfterSegment_KeepsRing ==
    /\ cb_pc = "reset"
    /\ state' = IDLE
    /\ speech_frames' = 0
    /\ silence_frames' = 0
    /\ utterance_buffer' = <<>>
    /\ prebuffer' = prebuffer
    /\ speech_ended_at' = clock
    /\ cb_pc' = "stamp"
    /\ UNCHANGED <<cfg_vars, tail_buffer, last_speech_end_time,
                   capture_running, cb_segment, trace, session, events,
                   segments, frames_total, escaped, pause_vars, stt_vars,
                   ctl_vars, tts_vars, pb_vars, sched_vars, obs_vars,
                   drain_vars, run_vars, flow_vars, clock>>

\* _process_frame after _emit_segment: "Reset state"
ResetAfterSegment ==
    /\ cb_pc = "reset"
    /\ state' = IDLE
    /\ speech_frames' = 0
    /\ silence_frames' = 0
    /\ utterance_buffer' = <<>>
    /\ prebuffer' = <<>>
    /\ speech_ended_at' = clock
    /\ cb_pc' = "stamp"
    /\ UNCHANGED <<cfg_vars, tail_buffer, last_speech_end_time,
                   capture_running, cb_segment, trace, session, events,
                   segments, frames_total, escaped, pause_vars, stt_vars,
                   ctl_vars, tts_vars, pb_vars, sched_vars, obs_vars,
                   drain_vars, run_vars, flow_vars, clock>>

\* _process_frame: last_speech_end_time = time.time(), then the call of
\* on_speech_end
StampSpeechEnd ==
    /\ cb_pc = "stamp"
    /\ last_speech_end_time' = clock
    /\ events' = Append(events, Event("speech_end", Len(trace) - 1))
    /\ cb_pc' = "on_speech_end"
    /\ UNCHANGED <<cfg_vars, vad_vars, capture_running, cb_segment, trace,
                   session, segments, frames_total, speech_ended_at, escaped,
                   pause_vars, stt_vars, ctl_vars, tts_vars, pb_vars,
                   sched_vars, obs_vars, drain_vars, run_vars, flow_vars,
                   clock>>

\* STTTTSApp._on_speech_end: the is_paused check, then return
OnSpeechEnd ==
    /\ cb_pc = "on_speech_end"
    /\ pause_lock = "free"
    /\ cb_pc' = "wait"
    /\ UNCHANGED <<cfg_vars, vad_vars, last_speech_end_time, capture_running,
                   cb_segment, hist_vars, pause_vars, stt_vars, ctl_vars,
                   tts_vars, pb_vars, sched_vars, obs_vars, drain_vars,
                   run_vars, flow_vars, clock>>

\* (variant: stop() that leaves _running set)
CaptureStop_KeepsRunning ==
    /\ cb_pc \in {"wait", "aborted"}
    /\ capture_running' = capture_running

\* AudioCaptureVAD.stop(); stopping the stream waits for a callback in
\* progress to return
CaptureStop ==
    /\ cb_pc \in {"wait", "aborted"}
    /\ capture_running' = FALSE

\* (variant: start() without the "Reset VAD state" block)
CaptureStart_NoReset ==
    IF capture_running
    THEN UNCHANGED <<vad_vars, capture_running, cb_pc, trace, session>>
    ELSE /\ capture_running' = TRUE
         /\ cb_pc' = "wait"
         /\ UNCHANGED vad_vars
         /\ trace' = <<>>
         /\ session' = session + 1

\* AudioCaptureVAD.start(): nothing when already running; otherwise the
\* "Reset VAD state" block, which leaves speech_frames and silence_frames,
\* and a new input stream
CaptureStart ==
    IF capture_running
    THEN UNCHANGED <<vad_vars, capture_running, cb_pc, trace, session>>
    ELSE /\ capture_running' = TRUE
         /\ cb_pc' = "wait"
         /\ state' = IDLE
         /\ prebuffer' = <<>>
         /\ utterance_buffer' = <<>>
         /\ UNCHANGED <<speech_frames, silence_frames, tail_buffer>>
         /\ trace' = <<>>
         /\ session' = session + 1

----------------------------------------------------------------------------
(* STTTTSApp._toggle_pause *)

\* with self._pause_lock: self._paused = not self._paused
ToggleBegin ==
    /\ t_pc = "idle"
    /\ pause_lock = "free"
    /\ toggles < MaxToggles
    /\ pause_lock' = "toggle"
    /\ paused' = ~paused
    /\ toggles' = toggles + 1
    /\ t_pc' = IF paused THEN "start_capture" ELSE "clear_stt"
    /\ t_cleared' = 0
    /\ t_snapshot' = IF paused THEN <<>> ELSE Ids(stt_queue)
    /\ t_removed' = <<>>
    /\ UNCHANGED <<cfg_vars, vad_vars, cap_vars, hist_vars, stt_vars,
                   ctl_vars, tts_vars, pb_vars, sched_vars, obs_vars,
                   run_vars, flow_vars, clock>>

\* "while not self.queue.empty()" is over
Drained(q) == q = <<>>

\* stt.clear_queue(): cleared = 0, then one turn of "while not
\* queue.empty(): get_nowait(); task_done(); cleared += 1" per step, or the
\* exit of the loop on an empty queue
ToggleClearSTT ==
    /\ t_pc = "clear_stt"
    /\ IF ~Drained(stt_queue)
       THEN /\ stt_queue' = Tail(stt_queue)
            /\ t_cleared' = t_cleared + 1
            /\ t_removed' = Append(t_removed, Head(stt_queue).id)
            /\ UNCHANGED <<t_pc, t_snapshot>>
       ELSE /\ t_pc' = "clear_tts"
            /\ t_cleared' = 0
            /\ t_snapshot' = Ids(tts_queue)
            /\ t_removed' = <<>>
            /\ UNCHANGED stt_queue
    /\ UNCHANGED <<cfg_vars, vad_vars, cap_vars, hist_vars, paused,
                   pause_lock, toggles, stt_pc, stt_item, ctl_vars, tts_vars,
                   pb_vars, sched_vars, obs_vars, run_vars, flow_vars, clock>>

\* tts.clear_queue(), likewise
ToggleClearTTS ==
    /\ t_pc = "clear_tts"
    /\ IF ~Drained(tts_queue)
       THEN /\ tts_queue' = Tail(tts_queue)
            /\ t_cleared' = t_cleared + 1
            /\ t_removed' = Append(t_removed, Head(tts_queue).id)
            /\ UNCHANGED <<t_pc, t_snapshot>>
       ELSE /\ t_pc' = "clear_playback"
            /\ t_cleared' = 0
            /\ t_snapshot' = <<>>
            /\ t_removed' = <<>>
            /\ UNCHANGED tts_queue
    /\ UNCHANGED <<cfg_vars, vad_vars, cap_vars, hist_vars, paused,
                   pause_lock, toggles, stt_vars, ctl_vars, tts_pc, tts_item,
                   pb_vars, sched_vars, obs_vars, run_vars, flow_vars, clock>>

\* (variant: the clear also gives up the clip being played)
ToggleClearPlayback_StopsClip ==
    /\ t_pc = "clear_playback"
    /\ pb_queue' = <<>>
    /\ current_clip' = NoItem
    /\ is_playing' = FALSE
    /\ t_pc' = "stop_capture"
    /\ UNCHANGED <<cfg_vars, vad_vars, cap_vars, hist_vars, paused,
                   pause_lock, toggles, stt_vars, ctl_vars, tts_vars,
                   was_playing, played, sched_vars, obs_vars, drain_vars,
                   run_vars, flow_vars, clock>>

\* playback.clear_queue(), under _queue_lock
ToggleClearPlayback ==
    /\ t_pc = "clear_playback"
    /\ pb_queue' = <<>>
    /\ t_pc' = "stop_capture"
    /\ UNCHANGED <<cfg_vars, vad_vars, cap_vars, hist_vars, paused,
                   pause_lock, toggles, stt_vars, ctl_vars, tts_vars,
                   is_playing, current_clip, was_playing, played, sched_vars,
                   obs_vars, drain_vars, run_vars, flow_vars, clock>>

\* capture.stop(), then the lock is released
ToggleStopCapture ==
    /\ t_pc = "stop_capture"
    /\ CaptureStop
    /\ pause_lock' = "free"
    /\ t_pc' = "idle"
    /\ UNCHANGED <<cfg_vars, vad_vars, last_speech_end_time, cb_pc,
                   cb_segment, hist_vars, paused, toggles, stt_vars, ctl_vars,
                   tts_vars, pb_vars, sched_vars, obs_vars, drain_vars,
                   run_vars, flow_vars, clock>>

\* capture.start(), then the lock is released
ToggleStartCapture ==
    /\ t_pc = "start_capture"
    /\ CaptureStart
    /\ pause_lock' = "free"
    /\ t_pc' = "idle"
    /\ UNCHANGED <<cfg_vars, last_speech_end_time, cb_segment, events,
                   segments, frames_total, speech_ended_at, escaped, paused,
                   toggles, stt_vars, ctl_vars, tts_vars, pb_vars, sched_vars,
                   obs_vars, drain_vars, run_vars, flow_vars, clock>>

----------------------------------------------------------------------------
(* STTWorker *)

Outcomes == {"returns", "error"}

\* What model.transcribe returns: the texts of its segments, each a
\* sequence of characters, "_" standing for a blank
ModelOutputs ==
    { <<>>,
      << <<"_">> >>,
      << <<"_", "a">>, <<>> >> }

\* str.strip(): the text without its leading and trailing blanks
RECURSIVE StripLeft(_)
StripLeft(t) ==
    IF t # <<>> /\ Head(t) = "_" THEN StripLeft(Tail(t)) ELSE t

RECURSIVE StripRight(_)
StripRight(t) ==
    IF t # <<>> /\ t[Len(t)] = "_"
    THEN StripRight(SubSeq(t, 1, Len(t) - 1)) ELSE t

Strip(t) == StripRight(StripLeft(t))

\* " ".join(texts)
RECURSIVE Join(_)
Join(texts) ==
    IF texts = <<>> THEN <<>>
    ELSE IF Len(texts) = 1 THEN Head(texts)
    ELSE Head(texts) \o <<"_">> \o Join(Tail(texts))

\* text = " ".join(s.text.strip() for s in segments).strip()
CollectText(out) == Strip(Join([k \in DOMAIN out |-> Strip(out[k])]))

\* (variant: every transcription is forwarded)
Forwards_Always(text) == TRUE

\* "if text:"
Forwards(text) == text # <<>>

\* TranscriptResult(text, audio, ...) built from a segment
TranscriptResult(seg, text) ==
    [id |-> seg.id, audio |-> seg.audio, text |-> text]

\* TTSResult(audio, transcript = transcript.text, ...)
TTSResult(tr) == [id |-> tr.id, transcript |-> tr.text]

\* (variant: the loop never tests the flag)
LoopTop_KeepsLooping(running) == "get"

\* "while self._running:" reached after an item: the next turn of the loop
\* (queue.get) or the end of the thread
LoopTop(running) == IF running THEN "get" ELSE "exited"

\* (variant: the exception ends the thread)
AfterError_Dies(running) == "exited"

\* "except Exception as e: print(...)", then task_done() and the next turn
\* of the loop
AfterError(running) == LoopTop(running)

\* The points of _worker_loop at which the loop holds an item
Busy == {"transcribe", "on_transcript", "tts_enqueue"}

\* (variant: the newest segment is taken first)
STTGet_Newest(i) ==
    /\ stt_pc[i] = "get"
    /\ stt_queue # <<>>
    /\ stt_item' = [stt_item EXCEPT ![i] = stt_queue[Len(stt_queue)]]
    /\ stt_queue' = SubSeq(stt_queue, 1, Len(stt_queue) - 1)
    /\ stt_pc' = [stt_pc EXCEPT ![i] = "transcribe"]
    /\ UNCHANGED <<cfg_vars, vad_vars, cap_vars, hist_vars, pause_vars,
                   ctl_vars, tts_vars, pb_vars, sched_vars, obs_vars,
                   drain_vars, run_vars, flow_vars, clock>>

\* _worker_loop: segment = self.queue.get(timeout = 0.1) returns an item
\* to the loop that passed "while self._running"
STTGet(i) ==
    /\ stt_pc[i] = "get"
    /\ stt_queue # <<>>
    /\ stt_item' = [stt_item EXCEPT ![i] = Head(stt_queue)]
    /\ stt_queue' = Tail(stt_queue)
    /\ stt_pc' = [stt_pc EXCEPT ![i] = "transcribe"]
    /\ UNCHANGED <<cfg_vars, vad_vars, cap_vars, hist_vars, pause_vars,
                   ctl_vars, tts_vars, pb_vars, sched_vars, obs_vars,
                   drain_vars, run_vars, flow_vars, clock>>

\* _worker_loop: model.transcribe; a non-empty text goes to on_transcript,
\* an empty text or an exception ends the item
STTTranscribe(i) ==
    \E outcome \in Outcomes, out \in ModelOutputs :
        LET text == CollectText(out)
            forwarded == outcome = "returns" /\ Forwards(text)
        IN  /\ stt_pc[i] = "transcribe"
            /\ stt_item' = [stt_item EXCEPT ![i] =
                                IF forwarded
                                THEN TranscriptResult(stt_item[i], text)
                                ELSE NoItem]
            /\ stt_pc' = [stt_pc EXCEPT ![i] =
                              IF forwarded THEN "on_transcript"
                              ELSE IF outcome = "error"
                              THEN AfterError(stt_running)
                              ELSE LoopTop(stt_running)]
            /\ failed' = IF outcome = "error"
                         THEN failed \cup {[stage |-> "stt",
                                            id |-> stt_item[i].id]}
                         ELSE failed
            /\ UNCHANGED <<cfg_vars, vad_vars, cap_vars, hist_vars,
                           pause_vars, stt_queue, ctl_vars, tts_vars, pb_vars,
                           sched_vars, obs_vars, drain_vars, run_vars,
                           stt_out, tts_out, clock>>

\* STTTTSApp._on_transcript: the is_paused check
OnTranscript(i) ==
    /\ stt_pc[i] = "on_transcript"
    /\ pause_lock = "free"
    /\ stt_pc' = [stt_pc EXCEPT ![i] = IF paused THEN LoopTop(stt_running)
                                       ELSE "tts_enqueue"]
    /\ stt_item' = [stt_item EXCEPT ![i] = IF paused THEN NoItem
                                           ELSE stt_item[i]]
    /\ UNCHANGED <<cfg_vars, vad_vars, cap_vars, hist_vars, pause_vars,
                   stt_queue, ctl_vars, tts_vars, pb_vars, sched_vars,
                   obs_vars, drain_vars, run_vars, flow_vars, clock>>

\* STTTTSApp._on_transcript: tts.enqueue(result)
OnTranscriptEnqueue(i) ==
    /\ stt_pc[i] = "tts_enqueue"
    /\ tts_queue' = Append(tts_queue, stt_item[i])
    /\ stt_out' = Append(stt_out, stt_item[i].id)
    /\ stt_item' = [stt_item EXCEPT ![i] = NoItem]
    /\ stt_pc' = [stt_pc EXCEPT ![i] = LoopTop(stt_running)]
    /\ UNCHANGED <<cfg_vars, vad_vars, cap_vars, hist_vars, pause_vars,
                   stt_queue, ctl_vars, tts_pc, tts_item, pb_vars, sched_vars,
                   obs_vars, drain_vars, run_vars, tts_out, failed, clock>>

\* _worker_loop: "while self._running" is false (at once, or after a
\* queue.get that timed out), the thread ends
STTExit(i) ==
    /\ stt_pc[i] = "get"
    /\ ~stt_running
    /\ stt_pc' = [stt_pc EXCEPT ![i] = "exited"]
    /\ UNCHANGED <<cfg_vars, vad_vars, cap_vars, hist_vars, pause_vars,
                   stt_queue, stt_item, ctl_vars, tts_vars, pb_vars,
                   sched_vars, obs_vars, drain_vars, run_vars, flow_vars,
                   clock>>

\* STTWorker.start() on a stopped worker: _running = True and a new
\* _worker_loop thread (start() on a running worker returns at once)
STTStart ==
    /\ ctl_pc = "idle"
    /\ ~stt_running
    /\ \E i \in Loops :
           /\ stt_pc[i] = "none"
           /\ \A j \in Loops : j < i => stt_pc[j] # "none"
           /\ stt_pc' = [stt_pc EXCEPT ![i] = "get"]
           /\ stt_thread' = i
    /\ stt_running' = TRUE
    /\ UNCHANGED <<cfg_vars, vad_vars, cap_vars, hist_vars, pause_vars,
                   stt_queue, stt_item, ctl_pc, tts_vars, pb_vars, sched_vars,
                   obs_vars, drain_vars, run_vars, flow_vars, clock>>

\* STTWorker.stop(): self._running = False
STTStopBegin ==
    /\ ctl_pc = "idle"
    /\ stt_running
    /\ stt_running' = FALSE
    /\ ctl_pc' = "join"
    /\ UNCHANGED <<cfg_vars, vad_vars, cap_vars, hist_vars, pause_vars,
                   stt_vars, stt_thread, tts_vars, pb_vars, sched_vars,
                   obs_vars, drain_vars, run_vars, flow_vars, clock>>

\* STTWorker.stop(): self._thread.join(timeout = 2.0) returns, because the
\* thread has ended or because 2 s have passed while the loop was held by
\* an item (an idle loop tests _running every 0.1 s); self._thread = None
STTStopJoin ==
    /\ ctl_pc = "join"
    /\ stt_pc[stt_thread] \in Busy \cup {"exited"}
    /\ stt_thread' = 0
    /\ ctl_pc' = "idle"
    /\ UNCHANGED <<cfg_vars, vad_vars, cap_vars, hist_vars, pause_vars,
                   stt_vars, stt_running, tts_vars, pb_vars, sched_vars,
                   obs_vars, drain_vars, run_vars, flow_vars, clock>>

\* STTWorker.enqueue(segment) called with a segment of one frame
SegmentSource ==
    /\ Len(segments) < MaxItems
    /\ segments' = Append(segments, [session |-> session, frames |-> <<0>>])
    /\ stt_queue' = Append(stt_queue, [id |-> Len(segments) + 1,
                                       audio |-> <<0>>])
    /\ UNCHANGED <<cfg_vars, vad_vars, cap_vars, trace, session, events,
                   frames_total, speech_ended_at, escaped, pause_vars, stt_pc,
                   stt_item, ctl_vars, tts_vars, pb_vars, sched_vars,
                   obs_vars, drain_vars, run_vars, flow_vars, clock>>

----------------------------------------------------------------------------
(* TTSWorker *)

\* _worker_loop: transcript = self.queue.get(timeout = 0.1)
TTSGet ==
    /\ tts_pc = "get"
    /\ tts_queue # <<>>
    /\ tts_item' = Head(tts_queue)
    /\ tts_queue' = Tail(tts_queue)
    /\ tts_pc' = "synthesize"
    /\ UNCHANGED <<cfg_vars, vad_vars, cap_vars, hist_vars, pause_vars,
                   stt_vars, ctl_vars, pb_vars, sched_vars, obs_vars,
                   drain_vars, run_vars, flow_vars, clock>>

\* _worker_loop: model.create and pitch_shift; an exception ends the item
TTSSynthesize ==
    \E outcome \in {"ok", "error"} :
        /\ tts_pc = "synthesize"
        /\ tts_item' = IF outcome = "ok" THEN TTSResult(tts_item) ELSE NoItem
        /\ tts_pc' = IF outcome = "ok" THEN "on_audio"
                                      ELSE AfterError(tts_running)
        /\ failed' = IF outcome = "error"
                     THEN failed \cup {[stage |-> "tts", id |-> tts_item.id]}
                     ELSE failed
        /\ UNCHANGED <<cfg_vars, vad_vars, cap_vars, hist_vars, pause_vars,
                       stt_vars, ctl_vars, tts_queue, pb_vars, sched_vars,
                       obs_vars, drain_vars, run_vars, stt_out, tts_out,
                       clock>>

\* _worker_loop: "while self._running" is false (at once, or after a
\* queue.get that timed out), the thread ends
TTSExit ==
    /\ tts_pc = "get"
    /\ ~tts_running
    /\ tts_pc' = "exited"
    /\ UNCHANGED <<cfg_vars, vad_vars, cap_vars, hist_vars, pause_vars,
                   stt_vars, ctl_vars, tts_queue, tts_item, pb_vars,
                   sched_vars, obs_vars, drain_vars, run_vars, flow_vars,
                   clock>>

\* TTSWorker.stop(): self._running = False; the join that follows waits
\* for the thread for at most 2 s and changes nothing
TTSStop ==
    /\ tts_running
    /\ tts_running' = FALSE
    /\ UNCHANGED <<cfg_vars, vad_vars, cap_vars, hist_vars, pause_vars,
                   stt_vars, ctl_vars, tts_vars, pb_vars, sched_vars,
                   obs_vars, drain_vars, pb_running, pstop_pc, flow_vars,
                   clock>>

\* STTTTSApp._on_tts_audio: the is_paused check
OnTTSAudio ==
    /\ tts_pc = "on_audio"
    /\ pause_lock = "free"
    /\ tts_pc' = IF paused THEN LoopTop(tts_running) ELSE "playback_enqueue"
    /\ tts_item' = IF paused THEN NoItem ELSE tts_item
    /\ UNCHANGED <<cfg_vars, vad_vars, cap_vars, hist_vars, pause_vars,
                   stt_vars, ctl_vars, tts_queue, pb_vars, sched_vars,
                   obs_vars, drain_vars, run_vars, flow_vars, clock>>

\* TTSWorker.enqueue(transcript) called by STTTTSApp._on_transcript with
\* the next transcript of the STT stage
TranscriptSource(max) ==
    /\ Len(stt_out) < max
    /\ stt_out' = Append(stt_out, Len(stt_out) + 1)
    /\ tts_queue' = Append(tts_queue,
                           TranscriptResult([id |-> Len(stt_out) + 1,
                                             audio |-> <<0>>], <<"a">>))
    /\ UNCHANGED <<cfg_vars, vad_vars, cap_vars, hist_vars, pause_vars,
                   stt_vars, ctl_vars, tts_pc, tts_item, pb_vars, sched_vars,
                   obs_vars, drain_vars, run_vars, tts_out, failed, clock>>

\* (variant: the item is appended whatever the length)
Enqueued_Uncapped(q, cap, item) == Append(q, item)

\* (variant: a full queue refuses the new item)
Enqueued_DropNewest(q, cap, item) ==
    IF Len(q) >= cap THEN q ELSE Append(q, item)

\* PlaybackController.enqueue: drop the oldest at the cap, then append
Enqueued(q, cap, item) ==
    IF Len(q) >= cap THEN Append(Tail(q), item) ELSE Append(q, item)

\* STTTTSApp._on_tts_audio: playback.enqueue(result), under _queue_lock
OnTTSAudioEnqueue ==
    /\ tts_pc = "playback_enqueue"
    /\ pb_queue' = Enqueued(pb_queue, queue_max_items, tts_item)
    /\ tts_out' = Append(tts_out, tts_item.id)
    /\ tts_item' = NoItem
    /\ tts_pc' = LoopTop(tts_running)
    /\ UNCHANGED <<cfg_vars, vad_vars, cap_vars, hist_vars, pause_vars,
                   stt_vars, ctl_vars, tts_queue, is_playing, current_clip,
                   was_playing, played, sched_vars, obs_vars, drain_vars,
                   run_vars, stt_out, failed, clock>>

----------------------------------------------------------------------------
(* PlaybackController._worker_loop *)

\* silence_elapsed >= vad_end_timeout_seconds and not user_speaking
CanStart(now, last_end, speaking) ==
    /\ (last_end > 0 => now - last_end >= vad_end_timeout)
    /\ ~speaking

\* "while self._running:", then now = time.time()
SchedReadNow ==
    /\ s_pc = "top"
    /\ pb_running
    /\ s_now' = clock
    /\ s_pc' = "read_end"
    /\ UNCHANGED <<cfg_vars, vad_vars, cap_vars, hist_vars, pause_vars,
                   stt_vars, ctl_vars, tts_vars, pb_vars, s_last_speech_end,
                   s_user_speaking, obs_vars, drain_vars, run_vars, flow_vars,
                   clock>>

\* last_speech_end = self.get_last_speech_end_time()
SchedReadLastEnd ==
    /\ s_pc = "read_end"
    /\ s_last_speech_end' = last_speech_end_time
    /\ s_pc' = "read_speaking"
    /\ UNCHANGED <<cfg_vars, vad_vars, cap_vars, hist_vars, pause_vars,
                   stt_vars, ctl_vars, tts_vars, pb_vars, s_now,
                   s_user_speaking, obs_vars, drain_vars, run_vars, flow_vars,
                   clock>>

\* user_speaking = self.is_speaking(); the queue is cleared next when the
\* user speaks and nothing is playing
SchedReadSpeaking ==
    /\ s_pc = "read_speaking"
    /\ s_user_speaking' = IsSpeaking
    /\ s_pc' = IF IsSpeaking /\ ~is_playing THEN "clear" ELSE "start"
    /\ UNCHANGED <<cfg_vars, vad_vars, cap_vars, hist_vars, pause_vars,
                   stt_vars, ctl_vars, tts_vars, pb_vars, s_now,
                   s_last_speech_end, obs_vars, drain_vars, run_vars,
                   flow_vars, clock>>

\* self.clear_queue()
SchedClear ==
    /\ s_pc = "clear"
    /\ pb_queue' = <<>>
    /\ s_pc' = "start"
    /\ UNCHANGED <<cfg_vars, vad_vars, cap_vars, hist_vars, pause_vars,
                   stt_vars, ctl_vars, tts_vars, is_playing, current_clip,
                   was_playing, played, s_now, s_last_speech_end,
                   s_user_speaking, obs_vars, drain_vars, run_vars, flow_vars,
                   clock>>

\* Timer.cancel() on the timer the field refers to: it stops a timer that
\* is still waiting and has no effect on one whose function already runs
Cancelled(timers, k) ==
    IF k # 0 /\ timers[k] = "armed" THEN [timers EXCEPT ![k] = "cancelled"]
                                    ELSE timers

\* "Get next item from queue if not playing and can start"; with a clip
\* popped: _cancel_obs_clear(), then the transcript is written at once, or
\* by a Timer after obs_next_transcript_delay_seconds when was_playing
StartsClip ==
    /\ ~is_playing
    /\ CanStart(s_now, s_last_speech_end, s_user_speaking)
    /\ pb_queue # <<>>

SchedStart ==
    /\ s_pc = "start"
    /\ pb_queue' = IF StartsClip THEN Tail(pb_queue) ELSE pb_queue
    /\ current_clip' = IF StartsClip THEN Head(pb_queue) ELSE current_clip
    /\ is_playing' = IF StartsClip THEN TRUE ELSE is_playing
    /\ played' = IF StartsClip THEN Append(played, Head(pb_queue)) ELSE played
    /\ obs_clear' = IF StartsClip THEN Cancelled(obs_clear, obs_clear_timer)
                                  ELSE obs_clear
    /\ obs_clear_timer' = IF StartsClip THEN 0 ELSE obs_clear_timer
    /\ obs_update_timer' =
           IF StartsClip /\ was_playing
           THEN [pc |-> "armed", text |-> Head(pb_queue).id]
           ELSE obs_update_timer
    /\ obs_text' = IF StartsClip /\ ~was_playing THEN Head(pb_queue).id
                                                ELSE obs_text
    /\ s_pc' = "play"
    /\ UNCHANGED <<cfg_vars, vad_vars, cap_vars, hist_vars, pause_vars,
                   stt_vars, ctl_vars, tts_vars, was_playing, s_now,
                   s_last_speech_end, s_user_speaking, drain_vars, run_vars,
                   flow_vars, clock>>

\* "Play current clip if we have one": was_playing = True and the
\* is_speaking() check before the audio is played; otherwise was_playing =
\* False and the idle sleep
SchedPlay ==
    /\ s_pc = "play"
    /\ was_playing' = (is_playing /\ current_clip # NoItem)
    /\ s_pc' = IF is_playing /\ current_clip # NoItem
               THEN (IF IsSpeaking THEN "play_clear" ELSE "playing")
               ELSE "top"
    /\ UNCHANGED <<cfg_vars, vad_vars, cap_vars, hist_vars, pause_vars,
                   stt_vars, ctl_vars, tts_vars, pb_queue, is_playing,
                   current_clip, played, s_now, s_last_speech_end,
                   s_user_speaking, obs_vars, drain_vars, run_vars, flow_vars,
                   clock>>

\* self.clear_queue() when the user speaks as the clip is about to play
SchedPlayClear ==
    /\ s_pc = "play_clear"
    /\ pb_queue' = <<>>
    /\ s_pc' = "playing"
    /\ UNCHANGED <<cfg_vars, vad_vars, cap_vars, hist_vars, pause_vars,
                   stt_vars, ctl_vars, tts_vars, is_playing, current_clip,
                   was_playing, played, s_now, s_last_speech_end,
                   s_user_speaking, obs_vars, drain_vars, run_vars, flow_vars,
                   clock>>

\* _play_audio returns (played, or the error was printed); "Done with this
\* clip"; "Check if more in queue"
SchedPlayDone ==
    /\ s_pc = "playing"
    /\ current_clip' = NoItem
    /\ is_playing' = IF pb_queue = <<>> THEN FALSE ELSE is_playing
    /\ was_playing' = IF pb_queue = <<>> THEN FALSE ELSE was_playing
    /\ obs_clear' = IF pb_queue = <<>>
                    THEN Append(Cancelled(obs_clear, obs_clear_timer), "armed")
                    ELSE obs_clear
    /\ obs_clear_timer' = IF pb_queue = <<>> THEN Len(obs_clear) + 1
                                             ELSE obs_clear_timer
    /\ s_pc' = "top"
    /\ UNCHANGED <<cfg_vars, vad_vars, cap_vars, hist_vars, pause_vars,
                   stt_vars, ctl_vars, tts_vars, pb_queue, played, s_now,
                   s_last_speech_end, s_user_speaking, obs_text,
                   obs_update_timer, drain_vars, run_vars, flow_vars, clock>>

\* "while self._running:" is false, the thread ends
SchedExit ==
    /\ s_pc = "top"
    /\ ~pb_running
    /\ s_pc' = "exited"
    /\ UNCHANGED <<cfg_vars, vad_vars, cap_vars, hist_vars, pause_vars,
                   stt_vars, ctl_vars, tts_vars, pb_vars, s_now,
                   s_last_speech_end, s_user_speaking, obs_vars, drain_vars,
                   run_vars, flow_vars, clock>>

\* PlaybackController.stop(): self._running = False and both timers
\* cancelled
PlaybackStopBegin ==
    /\ pstop_pc = "idle"
    /\ pb_running
    /\ pb_running' = FALSE
    /\ obs_clear' = Cancelled(obs_clear, obs_clear_timer)
    /\ obs_update_timer' = IF obs_update_timer.pc = "armed"
                           THEN [obs_update_timer EXCEPT !.pc = "cancelled"]
                           ELSE obs_update_timer
    /\ pstop_pc' = "join"
    /\ UNCHANGED <<cfg_vars, vad_vars, cap_vars, hist_vars, pause_vars,
                   stt_vars, ctl_vars, tts_vars, pb_vars, sched_vars,
                   obs_text, obs_clear_timer, drain_vars, tts_running,
                   flow_vars, clock>>

\* PlaybackController.stop(): self._thread.join(timeout = 2.0) returns,
\* because the thread has ended or because 2 s have passed while a clip
\* plays (an idle loop tests _running every 0.05 s); then the sink is
\* emptied
PlaybackStopJoin ==
    /\ pstop_pc = "join"
    /\ s_pc \in {"playing", "exited"}
    /\ obs_text' = 0
    /\ pstop_pc' = "done"
    /\ UNCHANGED <<cfg_vars, vad_vars, cap_vars, hist_vars, pause_vars,
                   stt_vars, ctl_vars, tts_vars, pb_vars, sched_vars,
                   obs_clear, obs_clear_timer, obs_update_timer, drain_vars,
                   tts_running, pb_running, flow_vars, clock>>

\* the clear Timer's delay (obs_clear_delay_seconds) elapses before any
\* cancel(): its thread calls do_clear
ObsClearFire(k) ==
    /\ obs_clear[k] = "armed"
    /\ obs_clear' = [obs_clear EXCEPT ![k] = "check"]
    /\ UNCHANGED <<cfg_vars, vad_vars, cap_vars, hist_vars, pause_vars,
                   stt_vars, ctl_vars, tts_vars, pb_vars, sched_vars,
                   obs_text, obs_clear_timer, obs_update_timer, drain_vars,
                   run_vars, flow_vars, clock>>

\* do_clear: if not self._is_playing
ObsClearCheck(k) ==
    /\ obs_clear[k] = "check"
    /\ obs_clear' = [obs_clear EXCEPT ![k] = IF is_playing THEN "done"
                                                          ELSE "write"]
    /\ UNCHANGED <<cfg_vars, vad_vars, cap_vars, hist_vars, pause_vars,
                   stt_vars, ctl_vars, tts_vars, pb_vars, sched_vars,
                   obs_text, obs_clear_timer, obs_update_timer, drain_vars,
                   run_vars, flow_vars, clock>>

\* do_clear: self._write_obs_transcript("")
ObsClearWrite(k) ==
    /\ obs_clear[k] = "write"
    /\ obs_text' = 0
    /\ obs_clear' = [obs_clear EXCEPT ![k] = "done"]
    /\ UNCHANGED <<cfg_vars, vad_vars, cap_vars, hist_vars, pause_vars,
                   stt_vars, ctl_vars, tts_vars, pb_vars, sched_vars,
                   obs_clear_timer, obs_update_timer, drain_vars, run_vars,
                   flow_vars, clock>>

\* time passes
Tick ==
    /\ clock < MaxClock
    /\ clock' = clock + 1
    /\ UNCHANGED <<cfg_vars, vad_vars, cap_vars, hist_vars, pause_vars,
                   stt_vars, ctl_vars, tts_vars, pb_vars, sched_vars,
                   obs_vars, drain_vars, run_vars, flow_vars>>

----------------------------------------------------------------------------
(* Initial states: after STTTTSApp.setup() and run() *)

InitBase ==
    /\ state = IDLE
    /\ speech_frames = 0
    /\ silence_frames = 0
    /\ prebuffer = <<>>
    /\ utterance_buffer = <<>>
    /\ tail_buffer = <<>>
    /\ last_speech_end_time = 0
    /\ capture_running = TRUE
    /\ cb_pc = "wait"
    /\ cb_segment = NoItem
    /\ trace = <<>>
    /\ session = 1
    /\ events = <<>>
    /\ segments = <<>>
    /\ frames_total = 0
    /\ speech_ended_at = 0
    /\ escaped = 0
    /\ paused = FALSE
    /\ pause_lock = "free"
    /\ t_pc = "idle"
    /\ toggles = 0
    /\ stt_queue = <<>>
    /\ stt_item = [i \in Loops |-> NoItem]
    /\ tts_queue = <<>>
    /\ tts_pc = "get"
    /\ tts_item = NoItem
    /\ pb_queue = <<>>
    /\ is_playing = FALSE
    /\ current_clip = NoItem
    /\ was_playing = FALSE
    /\ played = <<>>
    /\ s_pc = "top"
    /\ s_now = 0
    /\ s_last_speech_end = 0
    /\ s_user_speaking = FALSE
    /\ obs_text = 0
    /\ obs_clear = <<>>
    /\ obs_clear_timer = 0
    /\ obs_update_timer = NoTimer
    /\ t_cleared = 0
    /\ t_snapshot = <<>>
    /\ t_removed = <<>>
    /\ tts_running = TRUE
    /\ pb_running = TRUE
    /\ pstop_pc = "idle"
    /\ stt_out = <<>>
    /\ tts_out = <<>>
    /\ failed = {}
    /\ clock = 1

\* STTTTSApp.run(): self.stt.start() has created the one _worker_loop
InitRest ==
    /\ InitBase
    /\ stt_running = TRUE
    /\ stt_thread = 1
    /\ ctl_pc = "idle"
    /\ stt_pc = [i \in Loops |-> IF i = 1 THEN "get" ELSE "none"]

AudioCallback ==
    \/ OnSpeechStart
    \/ OnSpeechStartClear
    \/ OnSegment
    \/ OnSegmentEnqueue
    \/ ResetAfterSegment
    \/ StampSpeechEnd
    \/ OnSpeechEnd

TogglePause ==
    \/ ToggleBegin
    \/ ToggleClearSTT
    \/ ToggleClearTTS
    \/ ToggleClearPlayback
    \/ ToggleStopCapture
    \/ ToggleStartCapture

----------------------------------------------------------------------------
(* SpecSeg: the segmenter under every probability trace and every pause    *)
(* and resume, for a range of configurations.                              *)
(***************************************************************************)

InitSeg ==
    /\ prebuffer_frames \in 0..MaxPrebuffer
    /\ min_speech_frames \in 1..MaxMinSpeech
    /\ min_silence_frames \in 1..MaxMinSilence
    /\ queue_max_items = 1
    /\ InitRest

FrameSource ==
    \E p \in Probs :
        /\ frames_total < MaxFrames
        /\ (FrameIdle(p) \/ FrameInSpeech(p))

NextSeg ==
    \/ FrameSource
    \/ AudioCallback
    \/ TogglePause

SpecSeg == InitSeg /\ [][NextSeg]_vars

----------------------------------------------------------------------------
(* Spec: pause and resume against the pipeline: the audio callback, the    *)
(* hotkey thread and the two stage workers, with the smallest segmenter    *)
(* configuration.  The playback queue only receives and is cleared.        *)
(***************************************************************************)

Init ==
    /\ prebuffer_frames = 1
    /\ min_speech_frames = 1
    /\ min_silence_frames = 1
    /\ queue_max_items = 1
    /\ InitRest

PipeFrameSource ==
    \E p \in {10, 90} :
        /\ frames_total < MaxPipeFrames
        /\ (FrameIdle(p) \/ FrameInSpeech(p))

STTWorker ==
    \E i \in Loops :
        \/ STTGet(i)
        \/ STTTranscribe(i)
        \/ OnTranscript(i)
        \/ OnTranscriptEnqueue(i)

TTSWorker ==
    \/ TTSGet
    \/ TTSSynthesize
    \/ OnTTSAudio
    \/ OnTTSAudioEnqueue

Scheduler ==
    \/ SchedReadNow
    \/ SchedReadLastEnd
    \/ SchedReadSpeaking
    \/ SchedClear
    \/ SchedStart
    \/ SchedPlay
    \/ SchedPlayClear
    \/ SchedPlayDone

Next ==
    \/ PipeFrameSource
    \/ AudioCallback
    \/ TogglePause
    \/ STTWorker
    \/ TTSWorker

Spec == Init /\ [][Next]_vars

----------------------------------------------------------------------------
(* SpecPlay: capture, the stage workers, the playback scheduler and the    *)
(* clock, with no pause.                                                   *)
(***************************************************************************)

NextPlay ==
    \/ PipeFrameSource
    \/ AudioCallback
    \/ STTWorker
    \/ TTSWorker
    \/ Scheduler
    \/ Tick

SpecPlay == Init /\ [][NextPlay]_vars

----------------------------------------------------------------------------
(* SpecOrder: the whole pipeline (capture, the stage workers, the playback *)
(* scheduler and the clock, with no pause) on utterances of one frame      *)
(* separated by one silent frame.                                          *)
(***************************************************************************)

OrderFrameSource ==
    /\ frames_total < MaxOrderFrames
    /\ (FrameIdle(90) \/ FrameInSpeech(10))

NextOrder ==
    \/ OrderFrameSource
    \/ AudioCallback
    \/ STTWorker
    \/ TTSWorker
    \/ Scheduler
    \/ Tick

SpecOrder == Init /\ [][NextOrder]_vars

----------------------------------------------------------------------------
(* SpecScenario: the segmenter alone on the probability trace              *)
(* [0.1]*10 + [0.9]*8 + [0.1]*12 with min_speech_frames = 4 and            *)
(* min_silence_frames = 9, for every preroll capacity from 6 up.           *)
(***************************************************************************)

MaxScenarioPrebuffer == 16

ScenarioTrace ==
    [i \in 1..30 |-> IF i <= 10 THEN 10 ELSE IF i <= 18 THEN 90 ELSE 10]

InitScenario ==
    /\ prebuffer_frames \in 6..MaxScenarioPrebuffer
    /\ min_speech_frames = 4
    /\ min_silence_frames = 9
    /\ queue_max_items = 1
    /\ InitRest

ScenarioSource ==
    /\ Len(trace) < Len(ScenarioTrace)
    /\ session = 1
    /\ (FrameIdle(ScenarioTrace[Len(trace) + 1])
        \/ FrameInSpeech(ScenarioTrace[Len(trace) + 1]))

NextScenario ==
    \/ ScenarioSource
    \/ AudioCallback

SpecScenario == InitScenario /\ [][NextScenario]_vars

----------------------------------------------------------------------------
(* SpecQueue: the playback queue between its producer and its consumers:   *)
(* transcripts arrive at the TTS worker, whose results are enqueued for    *)
(* playback, against the scheduler, the audio callback and the hotkey      *)
(* thread.  Time stands still.                                             *)
(***************************************************************************)

QueueFrameSource ==
    /\ frames_total < MaxQueueFrames
    /\ (FrameIdle(90) \/ FrameInSpeech(10))

NextQueue ==
    \/ QueueFrameSource
    \/ AudioCallback
    \/ TogglePause
    \/ TranscriptSource(MaxQueueClips)
    \/ TTSWorker
    \/ Scheduler

SpecQueue == Init /\ [][NextQueue]_vars

----------------------------------------------------------------------------
(* SpecCap: the playback queue for every queue cap drawn while the user    *)
(* speaks or not: playback.enqueue by the TTS worker, clear_queue and the  *)
(* pop by the scheduler, in every interleaving.                            *)
(***************************************************************************)

InitCap ==
    /\ prebuffer_frames = 1
    /\ min_speech_frames = 1
    /\ min_silence_frames = 1
    /\ queue_max_items \in 1..MaxQueueCap
    /\ InitRest

NextCap ==
    \/ QueueFrameSource
    \/ AudioCallback
    \/ TranscriptSource(MaxClips)
    \/ TTSWorker
    \/ Scheduler

SpecCap == InitCap /\ [][NextCap]_vars

----------------------------------------------------------------------------
(* SpecSilent: the playback queue while the user never speaks and nothing  *)
(* pauses: transcripts arrive at the TTS worker, whose results are         *)
(* enqueued for playback, and the scheduler runs, for every queue cap      *)
(* drawn.  The worker and the scheduler threads are scheduled fairly.      *)
(***************************************************************************)

InitSilent ==
    /\ prebuffer_frames = 1
    /\ min_speech_frames = 1
    /\ min_silence_frames = 1
    /\ queue_max_items \in 1..MaxQueueCap
    /\ InitRest

\* The steps of the scheduler when is_speaking() is false
SchedulerSilent ==
    \/ SchedReadNow
    \/ SchedReadLastEnd
    \/ SchedReadSpeaking
    \/ SchedStart
    \/ SchedPlay
    \/ SchedPlayDone

\* The threads of the clear Timers
ObsClearTimer ==
    \E k \in DOMAIN obs_clear :
        \/ ObsClearFire(k)
        \/ ObsClearCheck(k)
        \/ ObsClearWrite(k)

NextSilent ==
    \/ TranscriptSource(MaxClips)
    \/ TTSWorker
    \/ SchedulerSilent
    \/ ObsClearTimer

SpecSilent ==
    /\ InitSilent
    /\ [][NextSilent]_vars
    /\ WF_vars(TTSWorker)
    /\ WF_vars(SchedulerSilent)

----------------------------------------------------------------------------
(* SpecStop: the worker loops and the playback loop when stop() is called  *)
(* on each of them at any moment and start() is not called again, while    *)
(* segments flow through the stages.  Every loop thread is scheduled       *)
(* fairly.                                                                 *)
(***************************************************************************)

STTLoop == STTWorker \/ \E i \in Loops : STTExit(i)

TTSLoop == TTSWorker \/ TTSExit

PlaybackLoop == SchedulerSilent \/ SchedExit

NextStop ==
    \/ SegmentSource
    \/ STTLoop
    \/ TTSLoop
    \/ PlaybackLoop
    \/ STTStopBegin
    \/ TTSStop
    \/ PlaybackStopBegin
    \/ PlaybackStopJoin

SpecStop ==
    /\ Init
    /\ [][NextStop]_vars
    /\ WF_vars(STTLoop)
    /\ WF_vars(TTSLoop)
    /\ WF_vars(PlaybackLoop)

----------------------------------------------------------------------------
(* SpecWorker: an STTWorker on its own, from its construction, under every *)
(* sequence of start(), stop() and enqueue() calls.                        *)
(***************************************************************************)

InitWorker ==
    /\ prebuffer_frames = 1
    /\ min_speech_frames = 1
    /\ min_silence_frames = 1
    /\ queue_max_items = 1
    /\ InitBase
    /\ stt_running = FALSE
    /\ stt_thread = 0
    /\ ctl_pc = "idle"
    /\ stt_pc = [i \in Loops |-> "none"]

NextWorker ==
    \/ SegmentSource
    \/ STTStart
    \/ STTStopBegin
    \/ STTStopJoin
    \/ \E i \in Loops : STTExit(i)
    \/ STTWorker

SpecWorker == InitWorker /\ [][NextWorker]_vars

----------------------------------------------------------------------------
(* SpecErr: the segmenter under every probability trace in which the       *)
(* estimator may raise on any frame, for a range of configurations.        *)
(***************************************************************************)

ErrFrameSource ==
    /\ frames_total < MaxErrFrames
    /\ \/ \E p \in Probs : FrameIdle(p) \/ FrameInSpeech(p)
       \/ FrameError

NextErr ==
    \/ ErrFrameSource
    \/ AudioCallback

SpecErr == InitSeg /\ [][NextErr]_vars

----------------------------------------------------------------------------
(* SpecStage: the audio callback and the two stage workers with no pause,  *)
(* the worker threads scheduled fairly.                                    *)
(***************************************************************************)

NextStage ==
    \/ PipeFrameSource
    \/ AudioCallback
    \/ STTWorker
    \/ TTSWorker

SpecStage ==
    /\ Init
    /\ [][NextStage]_vars
    /\ WF_vars(STTWorker)
    /\ WF_vars(TTSWorker)

----------------------------------------------------------------------------
(* Helpers over the history of the current capture session.                *)
(***************************************************************************)

Range(q) == {q[i] : i \in DOMAIN q}

SetMax(S) == CHOOSE x \in S : \A y \in S : y <= x

\* Positions in events of the notifications of one kind in this session
EventsOf(kind) ==
    {i \in DOMAIN events :
        events[i].kind = kind /\ events[i].session = session}

\* Frame index of the most recent speech-start of this session
LastStartFrame == events[SetMax(EventsOf("speech_start"))].frame

\* Frame index at which the IDLE period holding frame f began: 0, or the
\* frame after the last speech-end before f
IdleBegin(f) ==
    LET ends == {events[i].frame : i \in EventsOf("speech_end")}
        before == {e \in ends : e < f}
    IN  IF before = {} THEN 0 ELSE SetMax(before) + 1

\* Frames b..f (0-based) of tr are min_speech_frames or more and the last
\* min_speech_frames of them are all at or above start_threshold
CompletesSpeechRun(tr, b, f) ==
    /\ f - b + 1 >= min_speech_frames
    /\ \A g \in (f - min_speech_frames + 1)..f : tr[g + 1] >= start_threshold

\* Number of trailing frames of tr below end_threshold, among the frames
\* received after frame f0 (the frames received while IN_SPEECH)
RECURSIVE SilentRun(_, _)
SilentRun(tr, f0) ==
    IF Len(tr) <= f0 + 1 \/ tr[Len(tr)] >= end_threshold THEN 0
    ELSE 1 + SilentRun(SubSeq(tr, 1, Len(tr) - 1), f0)

\* <<a, a + 1, ..., b>>, empty when b < a
FramesFromTo(a, b) == [i \in 1..(b - a + 1) |-> a + i - 1]

ClipStarts == ~is_playing /\ is_playing'

PauseReturns == t_pc = "stop_capture" /\ t_pc' = "idle"

\* The step is the call of PlaybackController.enqueue
PlaybackEnqueues == tts_pc = "playback_enqueue" /\ tts_pc' = "get"

\* The step is a call of PlaybackController.clear_queue: by the audio
\* callback on a speech-start, by the scheduler (twice in its loop) or by
\* _toggle_pause
PlaybackDrains ==
    \/ cb_pc = "start_clear" /\ cb_pc' = "wait"
    \/ s_pc = "clear" /\ s_pc' = "start"
    \/ s_pc = "play_clear" /\ s_pc' = "playing"
    \/ t_pc = "clear_playback" /\ t_pc' = "stop_capture"

----------------------------------------------------------------------------
(* Claims                                                                  *)
(***************************************************************************)

\* C1: the scheduler never pops a clip and marks it as playing while the
\* Segmenter's state is IN_SPEECH.
C1_NoClipStartsDuringSpeech ==
    [][ClipStarts => state # IN_SPEECH]_vars

\* C2: the scheduler starts a clip only when at least vadEndTimeout has
\* elapsed since the Segmenter's most recent IN_SPEECH -> IDLE transition
\* (no bound if none ever happened).
C2_ClipStartsOnlyAfterTimeout ==
    [][ClipStarts =>
         (\/ speech_ended_at = 0
          \/ clock - speech_ended_at >= vad_end_timeout)]_vars

\* C3: when togglePause returns after a transition to paused, the
\* transcription queue, the synthesis queue and the playback pending queue
\* are all empty and is_paused is true.
C3_QueuesEmptyWhenPauseReturns ==
    [][PauseReturns =>
         (paused' /\ stt_queue' = <<>> /\ tts_queue' = <<>>
          /\ pb_queue' = <<>>)]_vars

\* C4: from the moment the pause transition completes until the next
\* resume, no item is added to the transcription queue, the synthesis queue
\* or the playback queue.
C4_NothingEnqueuedWhilePaused ==
    [][(paused /\ t_pc = "idle") =>
         (/\ Range(stt_queue') \subseteq Range(stt_queue)
          /\ Range(tts_queue') \subseteq Range(tts_queue)
          /\ Range(pb_queue') \subseteq Range(pb_queue))]_vars

\* C5: after a resume (capture restarted, no frame received yet) the
\* Segmenter is IDLE with an empty PrerollRing and an empty UtteranceBuffer,
\* whatever it held when the pause happened.
C5_ResumeResetsSegmenter ==
    (capture_running /\ session > 1 /\ trace = <<>>) =>
        (state = IDLE /\ prebuffer = <<>> /\ utterance_buffer = <<>>)

\* C5 witness: capture has been resumed after a pause that fell in the
\* middle of an open utterance (the last notification was a speech-start).
C5_Witness ==
    /\ capture_running /\ session > 1 /\ trace = <<>>
    /\ events # <<>> /\ events[Len(events)].kind = "speech_start"

\* C6: when capture restarts both counters are zero, and a speech-start
\* fires in a session only on a frame that ends min_speech_frames
\* consecutive frames of that session with p >= start_threshold.
C6_NoStaleCountersAfterResume ==
    /\ (capture_running /\ trace = <<>>) =>
           (speech_frames = 0 /\ silence_frames = 0)
    /\ \A i \in EventsOf("speech_start") :
           CompletesSpeechRun(trace, 0, events[i].frame)

\* A frame received while IN_SPEECH emits a segment exactly when it
\* completes a run of min_silence_frames consecutive frames with
\* p < end_threshold; otherwise nothing is emitted, the state stays
\* IN_SPEECH and the silence counter is the length of the current run (zero
\* after a frame with p >= end_threshold).  The state leaves IN_SPEECH
\* during capture only after such an emission.
C7_FrameInSpeech ==
    (state = IN_SPEECH /\ Len(trace') = Len(trace) + 1) =>
        LET run == SilentRun(trace', LastStartFrame)
        IN  IF run = min_silence_frames
            THEN /\ Len(segments') = Len(segments) + 1
                 /\ cb_pc' = "on_segment"
            ELSE /\ segments' = segments
                 /\ run < min_silence_frames
                 /\ silence_frames' = run
                 /\ state' = IN_SPEECH
                 /\ cb_pc' = "wait"

C7_LeavesInSpeech ==
    (state = IN_SPEECH /\ state' # IN_SPEECH /\ capture_running) =>
        (/\ cb_pc = "reset"
         /\ SilentRun(trace, LastStartFrame) = min_silence_frames
         /\ segments # <<>>
         /\ segments[Len(segments)].frames = utterance_buffer)

\* C7: while IN_SPEECH the Segmenter emits a segment and leaves IN_SPEECH
\* only on the frame that completes a run of min_silence_frames consecutive
\* frames with p < end_threshold; a shorter run followed by a frame with
\* p >= end_threshold emits nothing, zeroes the silence counter and keeps
\* the state IN_SPEECH.
C7_BriefDipsAbsorbed ==
    [][C7_FrameInSpeech /\ C7_LeavesInSpeech]_vars

\* C7 witness: a dip of one frame was absorbed (min_silence_frames = 2) and
\* the utterance then ended on the second frame of a full run.
C7_Witness ==
    /\ min_silence_frames = 2 /\ min_speech_frames = 1
    /\ trace = <<90, 10, 90, 10, 10>>
    /\ Len(segments) = 1
    /\ cb_pc = "wait"

\* In the current session every speech-start fired on the frame that
\* completes the first run of min_speech_frames consecutive frames with
\* p >= start_threshold of its IDLE period, at most one speech-start fired
\* per utterance, and every Segment is the PrerollRing at the transition
\* (oldest first) followed by the frames received while IN_SPEECH.
C8_StartOnFirstRun ==
    \A i \in EventsOf("speech_start") :
        LET f == events[i].frame
            b == IdleBegin(f)
        IN  /\ CompletesSpeechRun(trace, b, f)
            /\ \A g \in b..(f - 1) : ~CompletesSpeechRun(trace, b, g)
            /\ \A j \in EventsOf("speech_start") :
                   (j # i) => IdleBegin(events[j].frame) # b

C8_SegmentIsPrerollThenSpeech ==
    \A k \in DOMAIN segments :
        (segments[k].session = session) =>
            LET fr == segments[k].frames
                last == fr[Len(fr)]
                starts == {events[i].frame : i \in EventsOf("speech_start")}
                f == SetMax({x \in starts : x <= last})
                b == IdleBegin(f)
                first == IF f - prebuffer_frames + 1 > b
                         THEN f - prebuffer_frames + 1 ELSE b
            IN  /\ fr # <<>>
                /\ \E x \in starts : x <= last
                /\ fr = FramesFromTo(first, last)

\* C8: starting from IDLE, the speech-start notification fires exactly once
\* per utterance, on the frame that completes the first run of
\* min_speech_frames consecutive frames with p >= start_threshold, and the
\* Segment emitted for the utterance is the PrerollRing contents at that
\* transition, oldest first, followed by the frames received while
\* IN_SPEECH in arrival order.
C8_SpeechStartAndSegment ==
    C8_StartOnFirstRun /\ C8_SegmentIsPrerollThenSpeech

\* C9: on the scenario trace the speech-start notification fires at frame
\* index 13 and at no other frame.
C9_ScenarioSpeechStart ==
    /\ \A i \in DOMAIN events :
           events[i].kind = "speech_start" => events[i].frame = 13
    /\ Len(trace) >= 14 => Cardinality(EventsOf("speech_start")) = 1
    /\ Len(trace) < 14 => EventsOf("speech_start") = {}

\* C9 witness: the whole scenario trace has been processed and a
\* speech-start has fired.
C9_Witness ==
    /\ Len(trace) = 30 /\ cb_pc = "wait"
    /\ EventsOf("speech_start") # {}

ScenarioDone == Len(trace) = 30 /\ cb_pc = "wait"

\* C10 as stated: the speech-end notification fires at frame index 29 and
\* exactly one Segment is emitted, consisting of frames 7 through 29.
C10_ScenarioEndsAt29 ==
    ScenarioDone =>
        /\ Cardinality(EventsOf("speech_end")) = 1
        /\ \A i \in EventsOf("speech_end") : events[i].frame = 29
        /\ Len(segments) = 1
        /\ segments[1].frames = FramesFromTo(7, 29)

\* C10 amended: the speech-end notification fires at frame index 26 (the
\* ninth frame below end_threshold, frames 18..26) and at no other frame,
\* and exactly one Segment is emitted, consisting of frames max(0, 14 - N)
\* through 26 for a preroll ring of N >= 6 frames (7 through 26 for N = 7).
C10_ScenarioEndsAt26 ==
    /\ \A i \in DOMAIN events :
           events[i].kind = "speech_end" => events[i].frame = 26
    /\ Len(segments) <= 1
    /\ \A k \in DOMAIN segments :
           segments[k].frames =
               FramesFromTo(IF prebuffer_frames < 14
                            THEN 14 - prebuffer_frames ELSE 0, 26)
    /\ ScenarioDone =>
           (Cardinality(EventsOf("speech_end")) = 1 /\ Len(segments) = 1)

\* C10 witness: the scenario is done with a preroll ring of 7 frames and
\* the Segment holds frames 7 through 26.
C10_Witness ==
    /\ ScenarioDone
    /\ prebuffer_frames = 7
    /\ segments = <<[session |-> 1, frames |-> FramesFromTo(7, 26)]>>

\* C11: every Segment passed to on_segment holds at least one frame, for
\* every probability trace and every configuration drawn (a PrerollRing of
\* capacity 0 included): whenever the end of an utterance is confirmed the
\* UtteranceBuffer is non-empty, so a segment is emitted and it is that
\* buffer.
C11_SegmentNeverEmpty ==
    /\ \A k \in DOMAIN segments : Len(segments[k].frames) >= 1
    /\ cb_pc \in {"on_segment", "segment_enqueue", "reset"} =>
           (/\ utterance_buffer # <<>>
            /\ segments # <<>>
            /\ segments[Len(segments)].frames = utterance_buffer
            /\ cb_segment.audio = utterance_buffer)

\* C11 witness: with a PrerollRing of capacity 0 a segment of exactly one
\* frame (the frame that confirmed the end) is being handed to on_segment.
C11_Witness ==
    /\ prebuffer_frames = 0
    /\ cb_pc = "on_segment"
    /\ Len(cb_segment.audio) = 1

\* What enqueue must do to the pending queue: at the cap exactly the head
\* goes and the new item is appended, below the cap the item is appended.
C12_EnqueueStep ==
    PlaybackEnqueues =>
        /\ pb_queue' = IF Len(pb_queue) >= queue_max_items
                       THEN Tail(pb_queue) \o <<tts_item>>
                       ELSE pb_queue \o <<tts_item>>
        /\ Len(pb_queue') <= queue_max_items
        /\ current_clip' = current_clip
        /\ is_playing' = is_playing

\* C12: PlaybackController.enqueue on a queue at its cap (queue_max_items
\* >= 1) removes exactly the head and appends the new item, so the queue
\* becomes old[1:] + [new], and never touches the clip being played; with
\* a cap of 2 and clips 1, 2, 3 enqueued while nothing has started, the
\* queue ends as [2, 3].
C12_EnqueueDropsOldest ==
    /\ [][C12_EnqueueStep]_vars
    /\ []((queue_max_items = 2 /\ tts_out = <<1, 2, 3>> /\ played = <<>>)
             => Ids(pb_queue) = <<2, 3>>)

\* C12 witness: cap 2, clips 1, 2 and 3 were enqueued before the scheduler
\* started anything, and the queue holds 2 and 3.
C12_Witness ==
    /\ queue_max_items = 2
    /\ tts_out = <<1, 2, 3>>
    /\ played = <<>>
    /\ Ids(pb_queue) = <<2, 3>>

\* C13: a call of clear_queue (from _toggle_pause, from the speech-start
\* callback or from the scheduler's own is_speaking checks) changes neither
\* the current clip nor the playing flag; the current clip is given up by
\* no step but the scheduler's own end of playback, and while a clip is
\* current the scheduler is on its way to playing it or playing it.
C13_DrainKeepsCurrentClip ==
    /\ [][PlaybackDrains =>
             (current_clip' = current_clip /\ is_playing' = is_playing)]_vars
    /\ [][(current_clip # NoItem /\ current_clip' # current_clip) =>
             (s_pc = "playing" /\ s_pc' = "top")]_vars
    /\ [](current_clip # NoItem =>
             (is_playing /\ s_pc \in {"play", "play_clear", "playing"}))

\* C13 witness: clip 1 is being played while _toggle_pause has just drained
\* clip 2 from the pending queue.
C13_Witness ==
    /\ s_pc = "playing" /\ current_clip.id = 1 /\ is_playing
    /\ t_pc = "stop_capture"
    /\ tts_out = <<1, 2>>
    /\ played = <<current_clip>>
    /\ pb_queue = <<>>

InPlaybackQueue(id) == \E k \in DOMAIN pb_queue : pb_queue[k].id = id

WasPlayed(id) == \E k \in DOMAIN played : played[k].id = id

\* C20: every clip in the playback pending queue is eventually popped and
\* played or else leaves the queue by a drop at the cap (the user is
\* silent, no speech has ended and nothing drains the queue), also when it
\* was enqueued while an earlier clip was playing.
C20_QueuedClipEventuallyPlayed ==
    \A id \in 1..MaxClips :
        InPlaybackQueue(id) ~> (WasPlayed(id) \/ ~InPlaybackQueue(id))

\* ids is strictly increasing and every id is that of an emitted segment:
\* segment k has id k, so ids is an order-preserving subsequence of the
\* sequence of segments
SubsequenceOfSegments(ids) ==
    /\ \A i \in DOMAIN ids : ids[i] \in 1..Len(segments)
    /\ \A i, j \in DOMAIN ids : i < j => ids[i] < ids[j]

LiveLoops == {i \in Loops : stt_pc[i] \notin {"none", "exited"}}

\* C15: after any sequence of start() and stop() calls at most one
\* _worker_loop thread of the stage is alive and at most one item is being
\* processed, also after a stop() whose join timed out on a busy loop and
\* a start() that followed it.
C15_AtMostOneWorkerLoop ==
    /\ Cardinality(LiveLoops) <= 1
    /\ Cardinality({i \in Loops : stt_pc[i] \in Busy}) <= 1

\* The step is the processing of a frame on which the estimator raised
EstimatorFails ==
    /\ Len(trace') = Len(trace) + 1
    /\ trace'[Len(trace')] = -1

\* C16: a frame on which the estimator raises is handled as a non-speech
\* frame (in IDLE it enters the PrerollRing and the speech counter becomes
\* zero, in IN_SPEECH it enters the UtteranceBuffer and the silence counter
\* is incremented), the exception does not leave the per-frame processing
\* and the callback goes on.
C16_EstimatorErrorIsNonSpeech ==
    [][EstimatorFails =>
         (/\ escaped' = escaped
          /\ cb_pc' # "aborted"
          /\ state = IDLE =>
                 (/\ speech_frames' = 0
                  /\ prebuffer' = RingAppend(prebuffer, prebuffer_frames,
                                             Len(trace)))
          /\ state = IN_SPEECH =>
                 (/\ silence_frames' = silence_frames + 1
                  /\ utterance_buffer' =
                         UtteranceAppend(utterance_buffer, Len(trace))))]_vars

InSTTQueue(id) == \E k \in DOMAIN stt_queue : stt_queue[k].id = id

InTTSQueue(id) == \E k \in DOMAIN tts_queue : tts_queue[k].id = id

\* An item whose processing raised in a stage was not forwarded by it
NoOutputForFailed ==
    \A x \in failed :
        /\ x.stage = "stt" => x.id \notin Range(stt_out)
        /\ x.stage = "tts" => x.id \notin Range(tts_out)

\* C17: an exception raised while a stage worker processes an item gives
\* no output for that item and does not end the worker loop: every item
\* that is in a stage queue, before or after the failure, is eventually
\* taken from it.
C17_ErrorDoesNotStopWorker ==
    /\ [](NoOutputForFailed /\ stt_pc[1] # "exited" /\ tts_pc # "exited")
    /\ \A id \in 1..MaxPipeFrames :
           /\ InSTTQueue(id) ~> ~InSTTQueue(id)
           /\ InTTSQueue(id) ~> ~InTTSQueue(id)

\* C17 witness: transcription of segment 1 raised, synthesis of segment 2
\* raised after its transcription went through, and neither was forwarded
\* by the stage that failed.
C17_Witness ==
    /\ failed = {[stage |-> "stt", id |-> 1], [stage |-> "tts", id |-> 2]}
    /\ stt_out = <<2>>
    /\ tts_out = <<>>
    /\ stt_pc[1] = "get" /\ tts_pc = "get"

\* C18: there is no reachable state in which _toggle_pause holds
\* _pause_lock inside capture.stop(), which waits for the audio callback to
\* return, while the audio callback waits for _pause_lock in is_paused
\* (called from _on_segment, _on_speech_start or _on_speech_end).
C18_NoLockCycle ==
    ~(/\ t_pc = "stop_capture"
      /\ pause_lock = "toggle"
      /\ cb_pc \in {"on_segment", "on_speech_start", "on_speech_end"})

\* C19: whenever no _toggle_pause is in progress, capture is running if and
\* only if the application is not paused, and the application is paused
\* exactly after an odd number of toggles (two toggles give back the
\* original state).
C19_CaptureRunsIffActive ==
    t_pc = "idle" =>
        /\ capture_running <=> ~paused
        /\ paused <=> (toggles % 2 = 1)

\* C19 witness: after a pause and a resume capture is running again and
\* has delivered a frame of the new session.
C19_Witness ==
    /\ t_pc = "idle" /\ toggles = 2
    /\ ~paused /\ capture_running
    /\ session = 2 /\ trace # <<>>

----------------------------------------------------------------------------
(* The currently-playing slot *)

\* C21: whenever the scheduler is between two iterations of its loop,
\* is_playing is true exactly when a current clip is set: after a clip
\* finishes, is_playing does not stay true with no clip assigned, whether
\* or not the pending queue is empty at completion.
C21_PlayingIffClipSet ==
    s_pc = "top" => (is_playing <=> current_clip # NoItem)

----------------------------------------------------------------------------
(* The transcript sink *)

\* A clip has just finished while the queue was not empty: the scheduler is
\* between iterations, still in a playback run, with a clip pending
BackToBack == s_pc = "top" /\ was_playing /\ pb_queue # <<>>

\* C22: a clip started back-to-back (the queue was non-empty when the
\* previous clip finished) has its transcript written by the delayed
\* timer and not at once, a clip started from idle has it written at once,
\* and the back-to-back start does happen: once a clip finishes with a
\* clip pending, that clip is started with the delayed write armed.
C22_BackToBackWriteDelayed ==
    /\ [][ClipStarts =>
            IF was_playing
            THEN /\ obs_update_timer' = [pc |-> "armed",
                                         text |-> current_clip'.id]
                 /\ obs_text' = obs_text
            ELSE obs_text' = current_clip'.id]_vars
    /\ (BackToBack ~> obs_update_timer.pc = "armed")

\* C23: no clear timer writes the empty text while a clip is playing and
\* the sink holds that clip's transcript.
C23_NoClearWhilePlaying ==
    [][\A k \in DOMAIN obs_clear :
          (obs_clear[k] = "write" /\ obs_clear'[k] = "done")
              => ~(is_playing /\ current_clip # NoItem
                   /\ obs_text = current_clip.id)]_vars

----------------------------------------------------------------------------
(* The cap of the playback queue *)

\* C24: the playback pending queue never holds more than queue_max_items
\* items, in every interleaving of enqueue, clear_queue and the scheduler's
\* pop.
C24_QueueWithinCap == Len(pb_queue) <= queue_max_items

\* three clips were enqueued before any was popped, with room for two
C24_Witness ==
    /\ queue_max_items = 2
    /\ Len(tts_out) = 3
    /\ played = <<>>
    /\ Len(pb_queue) = 2

----------------------------------------------------------------------------
(* The preroll ring at speech start *)

\* The frames first..last of the session, none when first > last
RingExpected(first, last) ==
    FramesFromTo(IF first > 0 THEN first ELSE 0, last)

\* C25 as stated: at the IDLE->IN_SPEECH transition the ring holds exactly
\* the min(N, k) frames up to and including the transition frame, N the
\* ring capacity and k the number of frames received since capture
\* (re)started, also for the second and later utterances of a session.
C25_RingHoldsLastFrames ==
    cb_pc = "on_speech_start" =>
        LET f == Len(trace) - 1
        IN  prebuffer = RingExpected(f - prebuffer_frames + 1, f)

\* C25 amended: at the IDLE->IN_SPEECH transition the ring holds exactly
\* the min(N, k) frames up to and including the transition frame, N the
\* ring capacity and k the number of frames received since capture
\* (re)started or since the last speech end of the session, whichever is
\* later.
C25_RingHoldsFramesSinceIdle ==
    cb_pc = "on_speech_start" =>
        LET f == Len(trace) - 1
            b == IdleBegin(f)
            first == f - prebuffer_frames + 1
        IN  prebuffer = RingExpected(IF first > b THEN first ELSE b, f)

\* the second utterance of a session starts one frame after the first one
\* ended: the ring has room for two frames and holds one
C25_Witness ==
    /\ cb_pc = "on_speech_start"
    /\ session = 1
    /\ prebuffer_frames = 2
    /\ trace = <<90, 10, 90>>
    /\ prebuffer = <<2>>

----------------------------------------------------------------------------
(* The order of the Segmenter's notifications *)

\* The callback is between the emission of a segment and its speech-end
SegmentPending == cb_pc \in {"on_segment", "segment_enqueue", "reset", "stamp"}

SegmentsOf(sn) == {k \in DOMAIN segments : segments[k].session = sn}

SpeechEndsOf(sn) ==
    {i \in DOMAIN events :
        events[i].kind = "speech_end" /\ events[i].session = sn}

\* C26: speech-start and speech-end notifications alternate, beginning
\* with a speech-start: no speech-start follows another speech-start
\* without a speech-end in between, within a capture session and across
\* pause and resume; and each speech-end has exactly one segment, emitted
\* before it.
C26_NotificationsAlternate ==
    /\ \A i \in DOMAIN events :
          events[i].kind = IF i % 2 = 1 THEN "speech_start" ELSE "speech_end"
    /\ Cardinality(SegmentsOf(session)) =
          Cardinality(SpeechEndsOf(session))
              + (IF SegmentPending THEN 1 ELSE 0)

----------------------------------------------------------------------------
(* Stopping the loops *)

\* The points of TTSWorker._worker_loop at which the loop holds an item
TTSBusy == {"synthesize", "on_audio", "playback_enqueue"}

\* C27: after stop() with no start() after it, the loop of each stage
\* worker and the playback loop eventually exit; a stage worker that
\* finishes an item after stop() exits without taking another one, also
\* when its queue holds further items, and the playback loop that reaches
\* the top of its loop after stop() exits without starting another
\* iteration.
C27_LoopsExitAfterStop ==
    /\ (~stt_running ~> LiveLoops = {})
    /\ (~tts_running ~> tts_pc = "exited")
    /\ (~pb_running ~> s_pc = "exited")
    /\ [][\A i \in Loops :
             (~stt_running /\ stt_pc[i] \in Busy /\ stt_pc'[i] \notin Busy)
                 => stt_pc'[i] = "exited"]_vars
    /\ [][(~tts_running /\ tts_pc \in TTSBusy /\ tts_pc' \notin TTSBusy)
             => tts_pc' = "exited"]_vars
    /\ [][(~pb_running /\ s_pc = "top") => s_pc' \in {"top", "exited"}]_vars

\* every loop has exited after stop(): the STT loop with a segment left in
\* its queue, the playback loop after the clip it was playing
C27_Witness ==
    /\ ~stt_running /\ LiveLoops = {} /\ stt_queue # <<>>
    /\ ~tts_running /\ tts_pc = "exited"
    /\ ~pb_running /\ s_pc = "exited" /\ played # <<>>
    /\ pstop_pc = "done"

----------------------------------------------------------------------------
(* clear_queue of a stage *)

\* clear_queue of the STT or of the TTS stage returns
DrainReturns == t_pc \in {"clear_stt", "clear_tts"} /\ t_pc' # t_pc

\* clear_queue removes an item
DrainRemoves == t_removed' # t_removed /\ t_removed' # <<>>

\* C28: clear_queue on a stage has removed, when it returns, every item
\* that was queued when it was called, its cleared count is the number of
\* items it removed, and none of its steps touches the item a worker
\* holds, also while the worker takes items and the producer enqueues.
C28_DrainRemovesQueued ==
    /\ [][DrainReturns =>
            /\ Range(t_snapshot) \subseteq Range(t_removed)
            /\ t_cleared = Len(t_removed)]_vars
    /\ [][DrainRemoves =>
            /\ stt_item' = stt_item /\ stt_pc' = stt_pc
            /\ tts_item' = tts_item /\ tts_pc' = tts_pc]_vars

----------------------------------------------------------------------------
(* Hysteresis *)

\* A frame is processed
FrameStep == Len(trace') = Len(trace) + 1

\* C29: a frame with end_threshold <= p < start_threshold resets the
\* speech counter and leaves the Segmenter IDLE when it is IDLE, and
\* resets the silence counter and leaves it IN_SPEECH when it is
\* IN_SPEECH.
C29_Hysteresis ==
    [][(FrameStep /\ trace'[Len(trace')] >= end_threshold
                  /\ trace'[Len(trace')] < start_threshold)
          => /\ state' = state
             /\ state = IDLE => speech_frames' = 0
             /\ state = IN_SPEECH => silence_frames' = 0]_vars

\* a frame of 0.4 did not start speech in IDLE, and a frame of 0.4 reset
\* the silence run of one frame in IN_SPEECH
C29_Witness ==
    /\ min_speech_frames = 1
    /\ min_silence_frames = 2
    /\ session = 1
    /\ trace = <<40, 90, 10, 40>>
    /\ state = IN_SPEECH
    /\ silence_frames = 0
    /\ LastStartFrame = 1

----------------------------------------------------------------------------
(* The end of the segment *)

\* Frame last (0-based) of the session is the first frame after the speech
\* start at frame f that completes a run of min_silence_frames frames
\* below end_threshold
CompletesSilenceRun(tr, f, last) ==
    /\ last - f >= min_silence_frames
    /\ \A g \in (last - min_silence_frames + 1)..last :
          tr[g + 1] < end_threshold
    /\ last - min_silence_frames > f =>
          tr[last - min_silence_frames + 1] >= end_threshold

----------------------------------------------------------------------------
(* Empty transcriptions *)

\* C31: a segment whose transcription is the empty text is not forwarded:
\* every item in the synthesis queue and every clip in the playback queue
\* has a non-empty transcript text.
C31_NoEmptyTranscriptForwarded ==
    /\ \A k \in DOMAIN tts_queue : tts_queue[k].text # <<>>
    /\ \A k \in DOMAIN pb_queue : pb_queue[k].transcript # <<>>

\* with no pause and no exception, segment 1 was transcribed to the empty
\* text and dropped, and segment 2 was forwarded and is queued for playback
C31_Witness ==
    /\ toggles = 0
    /\ failed = {}
    /\ Len(segments) = 2
    /\ stt_queue = <<>>
    /\ stt_out = <<2>>
    /\ Ids(pb_queue) = <<2>>
    /\ pb_queue[1].transcript = <<"a">>

----------------------------------------------------------------------------
(* The frames of a segment *)

\* The segment is the frames first..last of its session, each once and in
\* arrival order
Contiguous(fr) == fr = FramesFromTo(fr[1], fr[Len(fr)])

============================================================================
